---- MODULE Spec2Model ----
(***************************************************************************)
(* The hardshare daemon (py-ws): the Control Channel task HSAPIClient.run  *)
(* with its frame handler handle_wsrecv, the admin socket task             *)
(* handle_dsocket, the supervisor run_sync, and the WorkspaceInstance      *)
(* state machine of core.py (launch_instance, maintain_tunnel, start_vpn,  *)
(* find_tunnelhub, destroy_instance).                                      *)
(*                                                                         *)
(* All coroutines run on one asyncio event loop: an action is the code a   *)
(* task executes between two suspension points.  Outcomes of subprocesses  *)
(* (docker/podman, ssh), of the file system and of the network are inputs  *)
(* drawn with \E.                                                          *)
(*                                                                         *)
(* api.py:422-431 calls WorkspaceInstance(cprovider, cargs, image,         *)
(* terminate) and launch_instance(..., init_inside, ...); the revision of  *)
(* core.py under src/ declares neither cargs/image/terminate nor           *)
(* init_inside.  The body of the constructor and of launch_instance is     *)
(* modelled from src/py-ws/hardshare/core.py; that the call binds is taken *)
(* from the specification (CallBinds).                                     *)
(***************************************************************************)
EXTENDS Integers, Sequences, FiniteSets, TLC

\* WorkspaceInstance objects that are referenced at the same time
MaxInst == 1
\* frames waiting in one asyncio.Queue of ws_recvmap
MaxQueue == 1

Slots == 1..MaxInst
\* instance identifiers, correlation identifiers and hub identifiers of the
\* frames the coordinator sends
Ids == {"i1", "i2"}
LaunchIds == {"i1"}
Mis == {"m1", "m2"}
Thids == {"h1", "h2"}
AcceptThids == {"h1"}
Conntypes == {"sshtun", "vpn"}
Providers == {"docker", "podman", "proxy"}
\* str(uuid.uuid4()) of the two VPN rounds
Uuids == {"u1", "u2"}
VpnMis == {"u1"}
\* current_wdeployment['id']
wdid == "w1"
PingIds == {"i1", wdid}
\* the 1200 s of run() after which the reconnection is given up, in clock
\* ticks
GiveUpAfter == 1

VARIABLES
    cprovider,        \* current_wdeployment['cprovider']
    ssh_key,          \* local_config['ssh_key']: "None", "path" (the file
                      \* exists) or "missing" (a path, but no such file)
    mainPc,           \* where the task main = run() is suspended
    mainResult,       \* how the task main ended
    lost_connection,  \* run(): lost_connection is not None
    elapsed,          \* run(): time.time() - lost_connection, in clock ticks
    current,          \* HSAPIClient.current: 0 (None) or the slot of the Instance
    ws_recvmap,       \* keys of HSAPIClient.ws_recvmap
    inst,             \* the WorkspaceInstance objects
    container,        \* a container named 'rrc' exists on the host
    reply,            \* the last frame handle_wsrecv handled (to) and its answer
    dsocket,          \* the task handle_dsocket
    sockfile,         \* the admin socket file exists
    dreply,           \* what the client of the admin socket gets for its request
    call,             \* a caller of destroy_instance: how its call ended
    cli,              \* the local configuration, the HSAPIClient built from it
                      \* and the last command run on it
    exit              \* result of run_sync

vars == <<cprovider, ssh_key, mainPc, mainResult, lost_connection, elapsed,
          current, ws_recvmap, inst, container, reply, dsocket, sockfile, dreply,
          call, cli, exit>>

config == <<cprovider, ssh_key, call, cli>>
admin == <<dsocket, sockfile, dreply, exit>>

\* WorkspaceInstance.__init__ and launch_instance accept the keyword
\* arguments handle_wsrecv passes
CallBinds == TRUE

\* mutation of Reply: the answer does not carry the mi of the request
Reply_nomi(to, cmd, mi, s) == [to |-> to, v |-> 0, cmd |-> cmd, mi |-> "", s |-> s]

\* the answer handle_wsrecv sends to the frame `to`
Reply(to, cmd, mi, s) == [to |-> to, v |-> 0, cmd |-> cmd, mi |-> mi, s |-> s]
NoReply == Reply("none", "none", "", "")

\* no command has been run; the configuration plays no part
NoCli ==
    [key |-> "none", file |-> <<>>, local_config |-> <<>>, cmd |-> "none",
     result |-> "none", rid |-> <<>>, wd |-> <<>>]

\* nobody has called destroy_instance directly
NoCall == [returned |-> FALSE, result |-> "none"]

\* the client of the admin socket has no answer pending
NoAnswer == "none"

\* handle_wsrecv is not in the middle of a frame and handle_dsocket is not in
\* the middle of a connection
Idle == reply = NoReply /\ dreply = NoAnswer

\* no object in the slot
NoInst ==
    [alive |-> FALSE, status |-> "NONE", instance_id |-> "None",
     conntype |-> "None", container_addr |-> "unset", port |-> "unset",
     tunnelhub |-> "None", tunnel_task |-> "None", cancel |-> FALSE,
     launch |-> "none", create |-> "none", wsopen |-> FALSE,
     queue |-> <<>>, frames |-> <<>>, child |-> "none",
     arg_id |-> "None", arg_ct |-> "None"]

\* mutation of NewInst: the coroutine launch_instance is never scheduled
NewInst_nolaunch(id, ct) ==
    [NoInst EXCEPT !.alive = TRUE, !.status = "INIT", !.launch = "none",
                   !.wsopen = TRUE, !.arg_id = id, !.arg_ct = ct]

\* the object right after WorkspaceInstance(...) and the call of
\* launch_instance(instance_id=id, ws_send=ws.send_str, ws_recv=Queue, conntype=ct)
NewInst(id, ct) ==
    [NoInst EXCEPT !.alive = TRUE, !.status = "INIT", !.launch = "new",
                   !.wsopen = TRUE, !.arg_id = id, !.arg_ct = ct]

\* the task tunnel_task exists and is not done()
Running(t) ==
    t \in {"new", "wait_addr", "wait_accept", "spawning", "supervise",
           "terminating", "vpn_create", "vpn_newclient", "vpn_spawning",
           "vpn_supervise"}

\* nothing references the object any more: it is not current and none of
\* its tasks can run again
Garbage(r, i, cur) ==
    /\ r.alive
    /\ i # cur
    /\ r.launch \in {"done", "raised"}
    /\ ~Running(r.tunnel_task)

\* assignment of the objects and of self.current
Put(f, cur) ==
    /\ inst' = [i \in Slots |-> IF Garbage(f[i], i, cur) THEN NoInst ELSE f[i]]
    /\ current' = cur

\* mutation of CloseWs: leaving the connection also drops the tunnel tasks
CloseWs_drops(f) ==
    [i \in Slots |-> [f[i] EXCEPT !.wsopen = FALSE, !.tunnel_task = "None"]]

\* the websocket of the connection is closed (async with ... as ws exits)
CloseWs(f) == [i \in Slots |-> [f[i] EXCEPT !.wsopen = FALSE]]

\* a frame a task of an Instance hands to ws_send
Frame(c, a) == [v |-> 0, cmd |-> c, arg |-> a]

Init ==
    /\ cprovider \in Providers
    /\ ssh_key \in {"None", "path", "missing"}
    /\ mainPc = "connect"
    /\ mainResult = "running"
    /\ lost_connection = FALSE
    /\ elapsed = 0
    /\ current = 0
    /\ ws_recvmap = {}
    /\ inst = [i \in Slots |-> NoInst]
    /\ container = FALSE
    /\ reply = NoReply
    /\ dsocket = "listening"
    /\ sockfile = TRUE
    /\ dreply = NoAnswer
    /\ call = NoCall
    /\ cli = NoCli
    /\ exit = "running"


(***************************************************************************)
(* HSAPIClient.run: the Control Channel                                    *)
(***************************************************************************)

\* mutation of window_exceeded: the time of the first loss is not consulted
window_exceeded_at_once == lost_connection

\* run(): lost_connection is not None and
\* time.time() - lost_connection > 1200
window_exceeded == lost_connection /\ elapsed > GiveUpAfter

\* the clause `except Exception` of run(): the first loss is noted, or the
\* loop is left when the window is exceeded; otherwise run() goes to sleep
\* before the next attempt
except_Exception ==
    IF window_exceeded
    THEN /\ mainPc' = "done"
         /\ mainResult' = "abandoned"
         /\ UNCHANGED <<lost_connection, elapsed>>
    ELSE /\ mainPc' = "sleep"
         /\ mainResult' = mainResult
         /\ lost_connection' = TRUE
         /\ elapsed' = IF lost_connection THEN elapsed ELSE 0

\* session.ws_connect(uri): the connection opens and lost_connection is
\* cleared, or the attempt raises
ws_connect ==
    /\ Idle
    /\ mainPc = "connect"
    /\ \E ok \in BOOLEAN :
         IF ok
         THEN /\ mainPc' = "open"
              /\ lost_connection' = FALSE
              /\ elapsed' = 0
              /\ mainResult' = mainResult
         ELSE except_Exception
    /\ UNCHANGED <<config, current, ws_recvmap, inst, container, reply, admin>>

\* time.time() advances while a first loss is noted
tick ==
    /\ Idle
    /\ mainPc \in {"sleep", "connect"}
    /\ lost_connection
    /\ elapsed <= GiveUpAfter
    /\ elapsed' = elapsed + 1
    /\ UNCHANGED <<config, mainPc, mainResult, lost_connection, current,
                   ws_recvmap, inst, container, reply, admin>>

\* await asyncio.sleep(1) in the except clause of run() returns
sleep_done ==
    /\ Idle
    /\ mainPc = "sleep"
    /\ mainPc' = "connect"
    /\ UNCHANGED <<config, mainResult, lost_connection, elapsed, current, ws_recvmap,
                   inst, container, reply, admin>>

\* a frame of type CLOSED or ERROR: handle_wsrecv returns False, run() leaves
\* the connection and opens the next one
recv_closed ==
    /\ Idle
    /\ mainPc = "open"
    /\ mainPc' = "connect"
    /\ Put(CloseWs(inst), current)
    /\ reply' = Reply("CLOSED", "none", "", "")
    /\ UNCHANGED <<config, mainResult, lost_connection, elapsed, ws_recvmap, container,
                   admin>>

\* mutation of Raised: the exception also clears self.current
Raised_clears(f, cur) ==
    /\ except_Exception
    /\ Put(CloseWs(f), 0)

\* an exception escapes the body of `async with`: the receive timeout, a
\* network error, or an exception raised by handle_wsrecv
Raised(f, cur) ==
    /\ except_Exception
    /\ Put(CloseWs(f), cur)

\* receive timeout or network error while waiting for a frame
conn_lost ==
    /\ Idle
    /\ mainPc = "open"
    /\ Raised(inst, current)
    /\ UNCHANGED <<config, ws_recvmap, container, reply, admin>>

\* a frame that does not parse, has v # 0 or no cmd, or an unknown cmd:
\* ws.close() and ValueError
recv_invalid ==
    /\ Idle
    /\ mainPc = "open"
    /\ Raised(inst, current)
    /\ reply' = Reply("INVALID", "none", "", "")
    /\ UNCHANGED <<config, ws_recvmap, container, admin>>

\* handle_wsrecv returns (or raises) after its last ws.send_str: run() takes
\* the next frame
handled ==
    /\ reply # NoReply
    /\ reply' = NoReply
    /\ UNCHANGED <<config, mainPc, mainResult, lost_connection, elapsed, current,
                   ws_recvmap, inst, container, admin>>

\* the lowest slot that holds no object
FreeSlot == CHOOSE i \in Slots : ~inst[i].alive /\ \A j \in Slots : j < i => inst[j].alive

\* mutation of launch_refused: the configured ssh_key is not consulted
launch_refused_nokeycheck(ct) == current # 0

\* handle_wsrecv, INSTANCE_LAUNCH: the conditions under which the request is
\* answered NACK
launch_refused(ct) == current # 0 \/ (ct = "sshtun" /\ ssh_key = "None")

\* handle_wsrecv, INSTANCE_LAUNCH: `not os.path.exists(ssh_key)`, under which
\* a warning is logged before the launch goes on
warns_missing_key(ct) == ct = "sshtun" /\ ssh_key = "missing"

\* mutation of launch_nack: the refusal is sent with cmd ACK
launch_nack_as_ack(mi) ==
    /\ reply' = Reply("INSTANCE_LAUNCH", "ACK", mi, "")
    /\ UNCHANGED <<current, inst, ws_recvmap>>

\* handle_wsrecv, INSTANCE_LAUNCH: the two branches that refuse
launch_nack(mi) ==
    /\ reply' = Reply("INSTANCE_LAUNCH", "NACK", mi, "")
    /\ UNCHANGED <<current, inst, ws_recvmap>>

\* handle_wsrecv, cmd == 'INSTANCE_LAUNCH'
instance_launch(id, ct, mi) ==
    /\ Idle
    /\ mainPc = "open"
    /\ IF launch_refused(ct)
       THEN launch_nack(mi)
       ELSE /\ CallBinds
            /\ \E i \in Slots : ~inst[i].alive
            /\ ws_recvmap' = ws_recvmap \cup {id}
            /\ Put([inst EXCEPT ![FreeSlot] = NewInst(id, ct)], FreeSlot)
            /\ reply' = Reply("INSTANCE_LAUNCH", "ACK", mi, "")
    /\ UNCHANGED <<config, mainPc, mainResult, lost_connection, elapsed, container, admin>>

\* WorkspaceInstance.destroy_instance up to its first suspension point, on the
\* object r: `rm -f` of the container, then cancel() of the tunnel task
destroy_instance(r) ==
    IF r.tunnel_task = "None"
    THEN r
    ELSE IF Running(r.tunnel_task)
         THEN [r EXCEPT !.cancel = TRUE]
         ELSE [r EXCEPT !.tunnel_task = "None"]

\* handle_wsrecv, cmd == 'INSTANCE_DESTROY'; rmok: the exit status of
\* `<cprovider> rm -f rrc` is 0
instance_destroy(mi, rmok) ==
    /\ Idle
    /\ mainPc = "open"
    /\ IF current = 0
       THEN /\ reply' = Reply("INSTANCE_DESTROY", "NACK", mi, "")
            /\ UNCHANGED <<current, inst, container, mainPc, mainResult,
                           lost_connection, elapsed>>
       ELSE /\ reply' = Reply("INSTANCE_DESTROY", "ACK", mi, "")
            /\ IF rmok /\ cprovider \in {"docker", "podman"}
               THEN /\ container' = FALSE
                    /\ LET r == destroy_instance(inst[current]) IN
                       IF Running(r.tunnel_task)
                       THEN /\ mainPc' = "destroy_wait"
                            /\ Put([inst EXCEPT ![current] = r], current)
                       ELSE /\ mainPc' = "open"
                            /\ Put([inst EXCEPT ![current] = r], 0)
                    /\ UNCHANGED <<mainResult, lost_connection, elapsed>>
               ELSE /\ Raised(inst, current)
                    /\ UNCHANGED container
    /\ UNCHANGED <<config, ws_recvmap, admin>>

\* destroy_instance: `while not self.tunnel_task.done()` ends; then
\* handle_wsrecv sets self.current = None
destroy_wait ==
    /\ Idle
    /\ mainPc = "destroy_wait"
    /\ ~Running(inst[current].tunnel_task)
    /\ mainPc' = "open"
    /\ Put([inst EXCEPT ![current].tunnel_task = "None"], 0)
    /\ UNCHANGED <<config, mainResult, lost_connection, elapsed, ws_recvmap, container,
                   reply, admin>>

\* handle_wsrecv, cmd == 'INSTANCE_STATUS'
instance_status(mi) ==
    /\ Idle
    /\ mainPc = "open"
    /\ reply' = IF current = 0
                THEN Reply("INSTANCE_STATUS", "NACK", mi, "")
                ELSE Reply("INSTANCE_STATUS", "ACK", mi, inst[current].status)
    /\ UNCHANGED <<config, mainPc, mainResult, lost_connection, elapsed, current,
                   ws_recvmap, inst, container, admin>>

\* mutation of routed_to_current: the id of the frame is not compared
routed_to_current_anyid(id) == current # 0

\* handle_wsrecv, TH_ACCEPT, VPN_CREATE, VPN_NEWCLIENT: the frame is for the
\* current Instance
routed_to_current(id) == current # 0 /\ inst[current].instance_id = id

\* handle_wsrecv, cmd in TH_ACCEPT, VPN_CREATE, VPN_NEWCLIENT: the payload is
\* put on the queue of the current Instance, or refused
Routed(cmd, id, thid, mi) ==
    /\ Idle
    /\ mainPc = "open"
    /\ IF ~routed_to_current(id)
       THEN /\ reply' = Reply(cmd, "NACK", mi, "")
            /\ UNCHANGED <<current, inst>>
       ELSE /\ Len(inst[current].queue) < MaxQueue
            /\ reply' = Reply(cmd, "none", "", "")
            /\ Put([inst EXCEPT ![current].queue =
                        Append(@, [cmd |-> cmd, id |-> id, mi |-> mi,
                                   thid |-> thid])],
                   current)
    /\ UNCHANGED <<config, mainPc, mainResult, lost_connection, elapsed, ws_recvmap,
                   container, admin>>

th_accept(id, thid, mi) == Routed("TH_ACCEPT", id, thid, mi)

vpn_reply(cmd, id, mi) == Routed(cmd, id, "", mi)

\* handle_wsrecv, cmd == 'TH_PING'
th_ping(id, thid, mi) ==
    /\ Idle
    /\ mainPc = "open"
    /\ reply' = IF \/ current = 0
                   \/ wdid # id
                   \/ inst[current].tunnelhub = "None"
                   \/ inst[current].tunnelhub # thid
                THEN Reply("TH_PING", "NACK", mi, "")
                ELSE Reply("TH_PING", "ACK", mi, "")
    /\ UNCHANGED <<config, mainPc, mainResult, lost_connection, elapsed, current,
                   ws_recvmap, inst, container, admin>>


(***************************************************************************)
(* WorkspaceInstance: the launch task                                      *)
(***************************************************************************)

\* ws_send(frame) by a task of the object r: the frame goes out on the
\* websocket that was open at launch time, and arrives if that one is
\* still open (delivered); on the closed one it is lost
Sent(r, f) ==
    [r EXCEPT !.frames = Append(@, [frame |-> f, delivered |-> r.wsopen])]

\* ws_send on the closed websocket raises (raises) or returns after the
\* frame is dropped, depending on the aiohttp release
SendRaises(r, raises) == ~r.wsopen /\ raises

\* launch_instance after its try statement: the INSTANCE_STATUS frame with the
\* current status, then the tunnel task is created
launch_emit(r, raises) ==
    IF SendRaises(r, raises)
    THEN [Sent(r, Frame("INSTANCE_STATUS", r.status))
             EXCEPT !.launch = "raised"]
    ELSE [Sent(r, Frame("INSTANCE_STATUS", r.status))
             EXCEPT !.launch = "done", !.tunnel_task = "new"]

\* the except clause of launch_instance
launch_fail(r, raises) == launch_emit([r EXCEPT !.status = "INIT_FAIL"], raises)

\* what a subprocess or the file system answers to one step of the launch
Outcomes == {"ok", "nokey", "fail", "none"}

\* One step of the task launch_instance of the object r; c: a container 'rrc'
\* exists.  out = "nokey": the public tunnel key cannot be read; "fail": the
\* command of this step (`run -d`, the key installation) exits nonzero;
\* "none": the sandbox publishes no address or port before the deadline.
\* The result is the object and the container.
launch_instance(r, c, out, raises) ==
    CASE r.launch = "new" ->
           IF cprovider \notin {"docker", "podman"}
           THEN [r |-> [r EXCEPT !.launch = "raised"], c |-> c]
           ELSE LET r1 == [r EXCEPT !.conntype = r.arg_ct,
                                    !.instance_id = r.arg_id] IN
                IF ssh_key # "None" /\ out = "nokey"
                THEN [r |-> launch_fail(r1, raises), c |-> c]
                ELSE IF c \/ out = "fail"
                THEN [r |-> launch_fail([r1 EXCEPT !.create = "failed"], raises),
                      c |-> c]
                ELSE [r |-> [r1 EXCEPT !.create = "ok", !.launch = "probe",
                                       !.container_addr =
                                           IF cprovider = "podman"
                                           THEN "set" ELSE "unset"],
                      c |-> TRUE]
      [] r.launch = "probe" ->
           LET found == IF c /\ out # "none" THEN "set" ELSE "none" IN
           IF cprovider = "docker"
           THEN [r |-> [r EXCEPT !.container_addr = found,
                                 !.port = "set", !.launch = "hostkey"],
                 c |-> c]
           ELSE [r |-> [r EXCEPT !.port = found, !.launch = "hostkey"],
                 c |-> c]
      [] r.launch = "hostkey" ->
           IF r.container_addr = "none" \/ ~c \/ out = "fail"
           THEN [r |-> launch_fail(r, raises), c |-> c]
           ELSE [r |-> launch_emit(r, raises), c |-> c]

\* the event loop runs the other tasks only while run_until_complete(main)
\* has not returned
launch_step(i) ==
    /\ Idle
    /\ mainPc # "done"
    /\ inst[i].launch \in {"new", "probe", "hostkey"}
    /\ \E out \in Outcomes, raises \in BOOLEAN :
         LET n == launch_instance(inst[i], container, out, raises) IN
         /\ Put([inst EXCEPT ![i] = n.r], current)
         /\ container' = n.c
    /\ UNCHANGED <<config, mainPc, mainResult, lost_connection, elapsed, ws_recvmap,
                   reply, admin>>

(***************************************************************************)
(* WorkspaceInstance: the Tunnel Controllers                               *)
(***************************************************************************)

\* the task ends: done() becomes true
Ended(r, how) == [r EXCEPT !.tunnel_task = how, !.cancel = FALSE]

\* self.tunnelkey_public as launch_instance read it from <ssh_key>.pub
tunnelkey_public == IF ssh_key = "None" THEN "None" ELSE "pub"

\* mutation of th_search: the public key is left out
th_search_nokey(r) ==
    Frame("TH_SEARCH",
          [id |-> r.instance_id, mo |-> r.conntype, key |-> "None"])

\* the TH_SEARCH payload: id, mo and, if there is a public key, key
th_search(r) ==
    Frame("TH_SEARCH",
          [id |-> r.instance_id, mo |-> r.conntype, key |-> tunnelkey_public])

\* find_tunnelhub up to `await ws_recv.get()`
find_tunnelhub(r, raises) ==
    IF SendRaises(r, raises)
    THEN Ended(Sent(r, th_search(r)), "failed")
    ELSE [Sent(r, th_search(r)) EXCEPT !.tunnel_task = "wait_accept"]

\* mutation of accept_ack: the ACK carries no mi
accept_ack_nomi(res) == Frame("ACK", "")

\* find_tunnelhub: the ACK of the TH_ACCEPT res
accept_ack(res) == Frame("ACK", res.mi)

\* find_tunnelhub from the item taken off the queue, then the controller up
\* to its next suspension point
th_accepted(r, raises) ==
    LET res == Head(r.queue)
        q == [r EXCEPT !.queue = Tail(@)] IN
    IF res.id # r.instance_id \/ res.cmd # "TH_ACCEPT"
    THEN Ended(q, "failed")
    ELSE LET h == [q EXCEPT !.tunnelhub = res.thid] IN
         IF SendRaises(h, raises)
         THEN Ended(Sent(h, accept_ack(res)), "failed")
         ELSE LET a == Sent(h, accept_ack(res)) IN
              IF r.conntype = "vpn"
              THEN [Sent(a, Frame("VPN_CREATE", "u1"))
                       EXCEPT !.tunnel_task = "vpn_create"]
              ELSE [a EXCEPT !.tunnel_task = "spawning"]

\* the bare except clause of start_vpn
vpn_fail(r, raises) ==
    LET f == [r EXCEPT !.status = "INIT_FAIL"] IN
    IF SendRaises(f, raises)
    THEN Ended(Sent(f, Frame("INSTANCE_STATUS", "INIT_FAIL")), "failed")
    ELSE Ended(Sent(f, Frame("INSTANCE_STATUS", "INIT_FAIL")), "done")

\* mutation of wait_container_addr: the controller does not wait
wait_container_addr_skipped(r) == FALSE

\* `while self.container_addr is None` at the head of both controllers
wait_container_addr(r) == r.container_addr = "none"

\* mutation of respawn: the exited subprocess is left alone
respawn_skipped(r) == r

\* mutation of respawn: the controller reports READY again
respawn_reports(r) ==
    [Sent(r, Frame("INSTANCE_STATUS", "READY")) EXCEPT !.child = "respawned"]

\* the supervise loop of both controllers finds the subprocess exited and
\* spawns it again
respawn(r) == [r EXCEPT !.child = "respawned"]

\* One step of the tunnel task of the object r (maintain_tunnel for sshtun,
\* start_vpn for vpn); c: the container exists; cmdok: the commands run in the
\* container exit 0.
tunnel_task(r, c, cmdok, raises) ==
    CASE r.tunnel_task = "new" ->
           IF r.cancel THEN Ended(r, "cancelled")
           ELSE IF r.container_addr = "unset" THEN Ended(r, "failed")
           ELSE IF wait_container_addr(r)
                THEN [r EXCEPT !.tunnel_task = "wait_addr"]
                ELSE find_tunnelhub(r, raises)
      [] r.tunnel_task = "wait_addr" ->
           IF r.cancel THEN Ended(r, "done") ELSE r
      [] r.tunnel_task = "wait_accept" ->
           IF r.cancel THEN Ended(r, "cancelled")
           ELSE IF r.queue = <<>> THEN r
           ELSE th_accepted(r, raises)
      [] r.tunnel_task = "spawning" ->
           IF r.cancel THEN Ended(r, "cancelled")
           ELSE LET s == [r EXCEPT !.child = "running", !.status = "READY"] IN
                IF SendRaises(s, raises)
                THEN Ended(Sent(s, Frame("INSTANCE_STATUS", "READY")), "failed")
                ELSE [Sent(s, Frame("INSTANCE_STATUS", "READY"))
                         EXCEPT !.tunnel_task = "supervise"]
      [] r.tunnel_task = "supervise" ->
           IF r.cancel
           THEN IF r.child \in {"running", "respawned"}
                THEN [r EXCEPT !.tunnel_task = "terminating",
                               !.child = "exited"]
                ELSE IF SendRaises(r, raises)
                     THEN Ended(Sent(r, Frame("SSHTUN_DELETE", "")), "failed")
                     ELSE Ended(Sent(r, Frame("SSHTUN_DELETE", "")), "done")
           ELSE IF r.child = "exited"
                THEN respawn(r)
                ELSE r
      [] r.tunnel_task = "terminating" ->
           IF SendRaises(r, raises)
           THEN Ended(Sent(r, Frame("SSHTUN_DELETE", "")), "failed")
           ELSE Ended(Sent(r, Frame("SSHTUN_DELETE", "")), "done")
      [] r.tunnel_task = "vpn_create" ->
           IF r.cancel THEN Ended(r, "cancelled")
           ELSE IF r.queue = <<>> THEN r
           ELSE LET res == Head(r.queue)
                    q == [r EXCEPT !.queue = Tail(@)] IN
                IF res.mi # "u1" \/ res.cmd # "ACK" \/ res.id # r.instance_id
                THEN Ended(q, "failed")
                ELSE IF SendRaises(q, raises)
                THEN Ended(Sent(q, Frame("VPN_NEWCLIENT", "u2")), "failed")
                ELSE [Sent(q, Frame("VPN_NEWCLIENT", "u2"))
                         EXCEPT !.tunnel_task = "vpn_newclient"]
      [] r.tunnel_task = "vpn_newclient" ->
           IF r.cancel THEN Ended(r, "cancelled")
           ELSE IF r.queue = <<>> THEN r
           ELSE LET res == Head(r.queue)
                    q == [r EXCEPT !.queue = Tail(@)] IN
                IF res.mi # "u2" \/ res.cmd # "ACK" \/ res.id # r.instance_id
                THEN Ended(q, "failed")
                ELSE IF ~c \/ ~cmdok THEN vpn_fail(q, raises)
                ELSE [q EXCEPT !.tunnel_task = "vpn_spawning"]
      [] r.tunnel_task = "vpn_spawning" ->
           IF r.cancel THEN vpn_fail([r EXCEPT !.cancel = FALSE], raises)
           ELSE LET s == [r EXCEPT !.child = "running", !.status = "READY"] IN
                IF SendRaises(s, raises)
                THEN vpn_fail(Sent(s, Frame("INSTANCE_STATUS", "READY")), raises)
                ELSE [Sent(s, Frame("INSTANCE_STATUS", "READY"))
                         EXCEPT !.tunnel_task = "vpn_supervise"]
      [] r.tunnel_task = "vpn_supervise" ->
           IF r.cancel
           THEN IF SendRaises(r, raises)
                THEN Ended(Sent(r, Frame("VPN_DELETE", r.instance_id)), "failed")
                ELSE Ended(Sent(r, Frame("VPN_DELETE", r.instance_id)), "done")
           ELSE IF r.child = "exited"
                THEN respawn(r)
                ELSE r

tunnel_step(i) ==
    /\ Idle
    /\ mainPc # "done"
    /\ Running(inst[i].tunnel_task)
    /\ \E cmdok, raises \in BOOLEAN :
         LET n == tunnel_task(inst[i], container, cmdok, raises) IN
         /\ n # inst[i]
         /\ Put([inst EXCEPT ![i] = n], current)
    /\ UNCHANGED <<config, mainPc, mainResult, lost_connection, elapsed, ws_recvmap,
                   container, reply, admin>>

\* the ssh tunnel or the VPN client exits by itself
child_exit(i) ==
    /\ Idle
    /\ mainPc # "done"
    /\ inst[i].child \in {"running", "respawned"}
    /\ Put([inst EXCEPT ![i].child = "exited"], current)
    /\ UNCHANGED <<config, mainPc, mainResult, lost_connection, elapsed, ws_recvmap,
                   container, reply, admin>>

(***************************************************************************)
(* run_sync, handle_sigterm, handle_dsocket                                *)
(***************************************************************************)

\* main.cancel(): CancelledError is raised where run() is suspended.  Inside
\* the try statement run() catches it and returns; in the sleep of the except
\* clause it escapes.  mainResult "abandoned": run() returned after `break`.
Cancelled ==
    /\ mainPc # "done"
    /\ mainPc' = "done"
    /\ mainResult' = IF mainPc = "sleep" THEN "cancelled" ELSE "returned"
    /\ Put(CloseWs(inst), current)

handle_sigterm ==
    /\ Idle
    /\ exit = "running"
    /\ Cancelled
    /\ UNCHANGED <<config, lost_connection, elapsed, ws_recvmap, container, reply, admin>>

\* handle_dsocket receives 'TERMINATE\n'
dsocket_terminate ==
    /\ Idle
    /\ exit = "running"
    /\ dsocket = "listening"
    /\ dsocket' = "done"
    /\ sockfile' = FALSE
    /\ IF mainPc = "done"
       THEN UNCHANGED <<mainPc, mainResult, inst, current>>
       ELSE Cancelled
    /\ UNCHANGED <<config, lost_connection, elapsed, ws_recvmap, container, reply,
                   dreply, exit>>

\* WorkspaceInstance.__init__: self.container_name
container_name == "rrc"

\* mutation of StatusAnswer: self.current is not consulted
StatusAnswer_ready(cur) == "READY\n"

\* handle_dsocket, msg == 'STATUS\n': the bytes sent to the client
StatusAnswer(cur) ==
    IF cur = 0 THEN "READY\n" ELSE "ACTIVE:" \o container_name \o "\n"

\* what a client writes to the admin socket, apart from TERMINATE: a status
\* request, any other text (or nothing: the client disconnects early), or
\* bytes that are not UTF-8
Requests == {"STATUS\n", "other", "undecodable"}

\* handle_dsocket accepts a connection and receives msg.  msg.decode() raises
\* UnicodeDecodeError on undecodable bytes; only BrokenPipeError and
\* CancelledError are caught, so the task ends with the exception after
\* its finally clauses closed the connection and unlinked the socket file.
dsocket_request(msg) ==
    /\ Idle
    /\ exit = "running"
    /\ dsocket = "listening"
    /\ dreply' = IF msg = "STATUS\n" THEN StatusAnswer(current) ELSE "closed"
    /\ dsocket' = IF msg = "undecodable" THEN "raised" ELSE dsocket
    /\ sockfile' = IF msg = "undecodable" THEN FALSE ELSE sockfile
    /\ UNCHANGED <<config, mainPc, mainResult, lost_connection, elapsed, current,
                   ws_recvmap, inst, container, reply, exit>>

\* conn.close() in the finally clause of handle_dsocket
dsocket_close ==
    /\ dreply # NoAnswer
    /\ dreply' = NoAnswer
    /\ UNCHANGED <<config, mainPc, mainResult, lost_connection, elapsed, current,
                   ws_recvmap, inst, container, reply, dsocket, sockfile, exit>>

\* run_sync, finally clause: run_until_complete(self.dsocket) raises the
\* exception the admin socket task ended with, in place of the result res
dsocket_result(res) == IF dsocket = "raised" THEN "raised" ELSE res

\* run_sync after run_until_complete(self.main): the admin socket task is
\* cancelled and joined, then run_sync returns 0 or the exception of main
\* propagates
run_sync ==
    /\ Idle
    /\ exit = "running"
    /\ mainPc = "done"
    /\ dsocket' = IF dsocket = "raised" THEN dsocket ELSE "done"
    /\ sockfile' = FALSE
    /\ exit' = dsocket_result(IF mainResult \in {"returned", "abandoned"}
                               THEN "0" ELSE "raised")
    /\ UNCHANGED <<config, mainPc, mainResult, lost_connection, elapsed, current,
                   ws_recvmap, inst, container, reply, dreply>>

\* the daemon without clients of the admin socket other than TERMINATE
DaemonNext ==
    \/ ws_connect
    \/ tick
    \/ sleep_done
    \/ recv_closed
    \/ conn_lost
    \/ recv_invalid
    \/ handled
    \/ \E id \in LaunchIds, ct \in Conntypes, mi \in Mis : instance_launch(id, ct, mi)
    \/ \E mi \in Mis, rmok \in BOOLEAN : instance_destroy(mi, rmok)
    \/ destroy_wait
    \/ \E mi \in Mis : instance_status(mi)
    \/ \E id \in Ids, thid \in AcceptThids, mi \in Mis : th_accept(id, thid, mi)
    \/ \E cmd \in {"VPN_CREATE", "VPN_NEWCLIENT"}, id \in Ids, mi \in VpnMis :
         vpn_reply(cmd, id, mi)
    \/ \E id \in PingIds, thid \in Thids, mi \in Mis : th_ping(id, thid, mi)
    \/ \E i \in Slots : launch_step(i)
    \/ \E i \in Slots : tunnel_step(i)
    \/ \E i \in Slots : child_exit(i)
    \/ handle_sigterm
    \/ dsocket_terminate
    \/ run_sync

Next ==
    \/ DaemonNext
    \/ \E msg \in Requests : dsocket_request(msg)
    \/ dsocket_close

Spec == Init /\ [][Next]_vars

\* the event loop runs every task that is ready: handle_wsrecv finishes the
\* frame it handles, and a controller whose sleep is over or whose queue has
\* an item runs its next step
FairSpec ==
    /\ Init
    /\ [][DaemonNext]_vars
    /\ WF_vars(handled)
    /\ SF_vars(destroy_wait)
    /\ \A i \in Slots : SF_vars(tunnel_step(i))


(***************************************************************************)
(* The launch in which nothing fails: every subprocess of launch_instance  *)
(* succeeds, the connection stays open, nobody destroys or terminates, the *)
(* subprocess of the controller keeps running, and the coordinator answers *)
(* a TH_SEARCH with one TH_ACCEPT for the searching Instance.              *)
(***************************************************************************)

HappyInit ==
    /\ Init
    /\ cprovider \in {"docker", "podman"}
    /\ ssh_key = "path"

\* session.ws_connect succeeds
HappyConnect == ws_connect /\ mainPc' = "open"

\* the coordinator launches with ct = sshtun
HappyLaunch == \E id \in LaunchIds, mi \in Mis : instance_launch(id, "sshtun", mi)

\* a step of launch_instance in which nothing raises and the address and the
\* port are found
HappyLaunchStep(i) ==
    /\ launch_step(i)
    /\ inst'[i].status = "INIT"
    /\ inst'[i].launch # "raised"
    /\ inst'[i].container_addr # "none"
    /\ inst'[i].port # "none"

\* a step of the controller that does not end the task
HappyTunnelStep(i) ==
    /\ tunnel_step(i)
    /\ Running(inst'[i].tunnel_task)

\* the coordinator answers the TH_SEARCH of the current Instance
HappyAccept ==
    /\ current # 0
    /\ inst[current].tunnel_task = "wait_accept"
    /\ inst[current].queue = <<>>
    /\ \E thid \in AcceptThids, mi \in Mis :
         th_accept(inst[current].instance_id, thid, mi)

HappyNext ==
    \/ HappyConnect
    \/ HappyLaunch
    \/ handled
    \/ \E i \in Slots : HappyLaunchStep(i)
    \/ \E i \in Slots : HappyTunnelStep(i)
    \/ HappyAccept
    \/ \E mi \in Mis : instance_status(mi)
    \/ \E id \in PingIds, thid \in Thids, mi \in Mis : th_ping(id, thid, mi)

\* the event loop runs every task that is ready (FIFO), and the coordinator
\* answers
HappySpec ==
    /\ HappyInit
    /\ [][HappyNext]_vars
    /\ WF_vars(HappyConnect)
    /\ SF_vars(handled)
    /\ SF_vars(\E i \in Slots : HappyLaunchStep(i))
    /\ SF_vars(\E i \in Slots : HappyTunnelStep(i))
    /\ SF_vars(HappyAccept)


(***************************************************************************)
(* destroy_instance called on an object, and called again: the object is   *)
(* drawn from the states a WorkspaceInstance can be in after its launch,   *)
(* the event loop runs its tunnel task, and a caller awaits                *)
(* destroy_instance() one call after the other.                            *)
(***************************************************************************)

\* the states of the tunnel task the objects are drawn with
DestroyTasks ==
    {"None", "new", "wait_addr", "wait_accept", "supervise", "done", "failed",
     "cancelled"}

\* a WorkspaceInstance after launch_instance, with status st and its tunnel
\* task at t
DestroyObject(st, t) ==
    [NewInst("i1", "sshtun") EXCEPT
        !.launch = "done", !.instance_id = "i1", !.conntype = "sshtun",
        !.status = st, !.tunnel_task = t,
        !.container_addr = IF t = "wait_addr" THEN "none" ELSE "addr",
        !.child = IF t = "supervise" THEN "running" ELSE "none"]

DestroyInit ==
    /\ cprovider \in Providers
    /\ ssh_key = "path"
    /\ mainPc = "open"
    /\ mainResult = "running"
    /\ lost_connection = FALSE
    /\ elapsed = 0
    /\ current = 1
    /\ ws_recvmap = {"i1"}
    /\ \E st \in {"INIT", "READY", "INIT_FAIL"}, t \in DestroyTasks :
         inst = [i \in Slots |-> IF i = 1 THEN DestroyObject(st, t) ELSE NoInst]
    /\ container \in BOOLEAN
    /\ reply = NoReply
    /\ dsocket = "listening"
    /\ sockfile = TRUE
    /\ dreply = NoAnswer
    /\ call = NoCall
    /\ cli = NoCli
    /\ exit = "running"

\* a caller awaits destroy_instance() of the object; rmok: the exit status of
\* `<cprovider> rm -f rrc` is 0.  check_call raises before anything else is
\* done; otherwise the tunnel task is cancelled and waited for.
destroy_call(rmok) ==
    /\ call.result \in {"none", "returned"}
    /\ IF rmok /\ cprovider \in {"docker", "podman"}
       THEN /\ container' = FALSE
            /\ LET r == destroy_instance(inst[1]) IN
               /\ inst' = [inst EXCEPT ![1] = r]
               /\ call' = IF Running(r.tunnel_task)
                          THEN [call EXCEPT !.result = "waiting"]
                          ELSE [returned |-> TRUE, result |-> "returned"]
       ELSE /\ call' = [call EXCEPT !.result = "raised"]
            /\ UNCHANGED <<inst, container>>
    /\ UNCHANGED <<cprovider, ssh_key, cli, mainPc, mainResult, lost_connection,
                   elapsed, current, ws_recvmap, reply, admin>>

\* destroy_instance: `while not self.tunnel_task.done()` ends and the call
\* returns
destroy_return ==
    /\ call.result = "waiting"
    /\ ~Running(inst[1].tunnel_task)
    /\ inst' = [inst EXCEPT ![1].tunnel_task = "None"]
    /\ call' = [returned |-> TRUE, result |-> "returned"]
    /\ UNCHANGED <<cprovider, ssh_key, cli, mainPc, mainResult, lost_connection,
                   elapsed, current, ws_recvmap, container, reply, admin>>

DestroyNext ==
    \/ \E rmok \in BOOLEAN : destroy_call(rmok)
    \/ destroy_return
    \/ tunnel_step(1)

DestroySpec == DestroyInit /\ [][DestroyNext]_vars


(***************************************************************************)
(* The commands around the daemon: register_new, the command `ad` and      *)
(* run_sync up to the creation of its two tasks, and inspect_instance.     *)
(* Identifiers are sequences of characters, so that a prefix is a prefix.  *)
(***************************************************************************)

Chars == {"a", "b"}

\* the identifiers of workspace deployments the server hands out
WdIds == {<<x, y>> : x, y \in Chars}

\* the id_prefix arguments
Prefixes == {<<x>> : x \in Chars} \cup WdIds

\* str.startswith
startswith(id, p) == Len(p) <= Len(id) /\ SubSeq(id, 1, Len(p)) = p

\* the dict register_new appends to local_config['wdeployments']
wd_entry(id, owner) ==
    [id |-> id, owner |-> owner, cprovider |-> "absent", image |-> "absent",
     container_name |-> "absent"]

\* mgmt.modify_local: the wdeployments written to the file main
modify_local(wds) ==
    [i \in 1..Len(wds) |->
        [id |-> wds[i].id, owner |-> wds[i].owner, cprovider |-> "docker",
         image |-> "hs.rerobots.net/generic", container_name |-> "rrc"]]

\* mgmt.get_local_config: the configuration read from the file main, with
\* the keys found under ~/.rerobots/keys
get_local_config(file, key) ==
    [version |-> 0, wdeployments |-> file,
     keys |-> IF key = "none" THEN <<>> ELSE <<key>>]

\* the status of the answer of the server to POST /register: 200 only for a
\* request that carries a valid token
Statuses == {"200", "400", "500"}
ServerStatus(key) == IF key = "valid" THEN Statuses ELSE {"400", "500"}

\* mutation of at_most_one_refuses: the local configuration is not consulted
at_most_one_ignored(at_most_one, wds) == FALSE

\* register_new: `if at_most_one and len(self.local_config['wdeployments']) > 0`
at_most_one_refuses(at_most_one, wds) == at_most_one /\ Len(wds) > 0

\* the process has not called run_sync: neither task exists
Unborn == mainPc = "unborn" /\ dsocket = "unborn"

CliInit ==
    /\ cprovider = "docker"
    /\ ssh_key = "path"
    /\ mainPc = "unborn"
    /\ mainResult = "running"
    /\ lost_connection = FALSE
    /\ elapsed = 0
    /\ current = 0
    /\ ws_recvmap = {}
    /\ inst = [i \in Slots |-> NoInst]
    /\ container = FALSE
    /\ reply = NoReply
    /\ dsocket = "unborn"
    /\ sockfile = FALSE
    /\ dreply = NoAnswer
    /\ call = NoCall
    /\ exit = "running"
    /\ \E key \in {"none", "invalid", "valid"},
          file \in {<<>>} \cup {modify_local(<<wd_entry(id, "username")>>) : id \in WdIds} :
         cli = [NoCli EXCEPT !.key = key, !.file = file,
                             !.local_config = get_local_config(file, key).wdeployments]

\* HSAPIClient.register_new; status: the status of the answer of the server,
\* newid: the id in its payload
register_new(at_most_one, status, newid) ==
    /\ Unborn
    /\ status \in ServerStatus(cli.key)
    /\ \A i \in 1..Len(cli.local_config) : cli.local_config[i].id # newid
    /\ IF at_most_one_refuses(at_most_one, cli.local_config) \/ status # "200"
       THEN cli' = [cli EXCEPT !.cmd = "register_new", !.result = "Error",
                               !.rid = <<>>]
       ELSE LET wds == Append(cli.local_config, wd_entry(newid, "username")) IN
            cli' = [cli EXCEPT !.cmd = "register_new", !.result = "returned",
                               !.rid = newid, !.local_config = wds,
                               !.file = modify_local(wds)]
    /\ UNCHANGED <<cprovider, ssh_key, call, mainPc, mainResult, lost_connection,
                   elapsed, current, ws_recvmap, inst, container, reply, admin>>

\* run_sync, `for local_wd_config in self.local_config['wdeployments']`: the
\* index of the first declared deployment whose id starts with id_prefix, 0
\* for None
first_match(wds, id_prefix) ==
    IF \E i \in 1..Len(wds) : startswith(wds[i].id, id_prefix)
    THEN CHOOSE i \in 1..Len(wds) :
            /\ startswith(wds[i].id, id_prefix)
            /\ \A j \in 1..(i - 1) : ~startswith(wds[j].id, id_prefix)
    ELSE 0

\* run_sync(id_prefix) up to `signal.signal`: ValueError is raised, outside
\* the try statement, when no declared deployment matches; otherwise the
\* tasks main and dsocket are created.  cmd: the command that made the call
run_sync_start(id_prefix, cmd) ==
    LET m == first_match(cli.local_config, id_prefix) IN
    IF m = 0
    THEN /\ cli' = [cli EXCEPT !.cmd = cmd, !.result = "ValueError", !.rid = <<>>]
         /\ UNCHANGED <<mainPc, dsocket, sockfile>>
    ELSE /\ cli' = [cli EXCEPT !.cmd = cmd, !.result = "started", !.rid = <<>>,
                                !.wd = cli.local_config[m].id]
         /\ mainPc' = "connect"
         /\ dsocket' = "listening"
         /\ sockfile' = TRUE

\* a program calls HSAPIClient().run_sync(id_prefix)
run_sync_call(id_prefix) ==
    /\ Unborn
    /\ run_sync_start(id_prefix, "run_sync")
    /\ UNCHANGED <<cprovider, ssh_key, call, mainResult, lost_connection, elapsed,
                   current, ws_recvmap, inst, container, reply, dreply, exit>>

\* mgmt.find_wd(config, id_prefix): the index of the one declared deployment
\* whose id starts with id_prefix, 0 (None) if there is not precisely one
find_wd(wds, id_prefix) ==
    LET ms == {i \in 1..Len(wds) : startswith(wds[i].id, id_prefix)} IN
    IF Cardinality(ms) = 1 THEN CHOOSE i \in ms : TRUE ELSE 0

\* cli.main, command ad: get_config_with_index(id_prefix) returns rc 1 for an
\* empty configuration or when find_wd gives None; otherwise run_sync is
\* called with the full id of the deployment found
ad(id_prefix) ==
    /\ Unborn
    /\ LET wds == get_local_config(cli.file, cli.key).wdeployments
           index == find_wd(wds, id_prefix) IN
       IF Len(wds) = 0 \/ index = 0
       THEN /\ cli' = [cli EXCEPT !.cmd = "ad", !.result = "1", !.rid = <<>>]
            /\ UNCHANGED <<mainPc, dsocket, sockfile>>
       ELSE run_sync_start(wds[index].id, "ad")
    /\ UNCHANGED <<cprovider, ssh_key, call, mainResult, lost_connection, elapsed,
                   current, ws_recvmap, inst, container, reply, dreply, exit>>

\* handle_dsocket: 'hardshare.{}.sock'.format(self.current_wdeployment['id'])
socket_path(id) == <<"hardshare">> \o id \o <<"sock">>

\* inspect_instance: to_addr
to_addr == <<"hardshare", "sock">>

\* the socket files under ~/.rerobots
SocketFiles == IF sockfile THEN {socket_path(cli.wd)} ELSE {}

\* WorkspaceInstance.inspect_instance(wdeployment) up to findings
\* ['daemon_found']: connect() to to_addr raises FileNotFoundError when
\* there is no such file; otherwise the daemon behind it answers STATUS
inspect_instance(id) ==
    /\ \E i \in 1..Len(cli.file) : cli.file[i].id = id
    /\ cli' = [cli EXCEPT !.cmd = "inspect", !.rid = id,
                          !.result = IF to_addr \in SocketFiles
                                     THEN "found" ELSE "not_found"]
    /\ UNCHANGED <<cprovider, ssh_key, call, mainPc, mainResult, lost_connection,
                   elapsed, current, ws_recvmap, inst, container, reply, admin>>

CliNext ==
    \/ \E amo \in BOOLEAN, status \in Statuses, newid \in WdIds :
         register_new(amo, status, newid)
    \/ \E p \in Prefixes : run_sync_call(p)
    \/ \E p \in Prefixes : ad(p)
    \/ \E id \in WdIds : inspect_instance(id)

CliSpec == CliInit /\ [][CliNext]_vars


(***************************************************************************)
(* Properties                                                              *)
(***************************************************************************)

\* the frame f is among the frames of the object r that went out
HasSent(r, f) ==
    \E k \in 1..Len(r.frames) : r.frames[k].frame = f /\ r.frames[k].delivered

\* the positions of the frames with cmd c (and, for INSTANCE_STATUS, s = a)
\* among the frames the tasks of the object r have handed to ws_send
Pushes(r, c) == {k \in 1..Len(r.frames) : r.frames[k].frame.cmd = c}
PushesOf(r, f) == {k \in 1..Len(r.frames) : r.frames[k].frame = f}

\* C1: self.current names at most one Instance, and an INSTANCE_LAUNCH handled
\* while an Instance is current, whatever the status of that Instance, is
\* answered NACK with the mi of the request, creates no WorkspaceInstance
\* object and leaves self.current alone.
C1_SecondLaunchRefused ==
    [][\A id \in LaunchIds, ct \in Conntypes, mi \in Mis :
         (current # 0 /\ instance_launch(id, ct, mi))
             => /\ reply' = Reply("INSTANCE_LAUNCH", "NACK", mi, "")
                /\ current' = current
                /\ inst' = inst]_vars

\* a launch was refused while an Instance with a failed launch was current
C1_Witness ==
    /\ reply.to = "INSTANCE_LAUNCH"
    /\ reply.cmd = "NACK"
    /\ current # 0
    /\ inst[current].status = "INIT_FAIL"
    /\ ssh_key = "path"

C3_StatusMonotone ==
    [][\A i \in Slots :
         (inst[i].alive /\ inst'[i].alive /\ inst'[i].status # inst[i].status)
             => /\ inst[i].status = "INIT"
                /\ inst'[i].status \in {"READY", "INIT_FAIL"}]_vars

\* C4: INSTANCE_DESTROY with an Instance current is answered ACK with the mi
\* of the request, removes the sandbox and, when destroy_instance is over,
\* leaves self.current None; with no Instance current it is answered NACK;
\* INSTANCE_STATUS with no Instance current is answered NACK with its mi.
C4_DestroyClears ==
    [][/\ \A mi \in Mis, rmok \in BOOLEAN :
            instance_destroy(mi, rmok)
                => IF current = 0
                   THEN reply' = Reply("INSTANCE_DESTROY", "NACK", mi, "")
                   ELSE /\ reply' = Reply("INSTANCE_DESTROY", "ACK", mi, "")
                        /\ ~container'
                        /\ current' = 0 \/ mainPc' = "destroy_wait"
       /\ destroy_wait => current' = 0
       /\ \A mi \in Mis :
            (instance_status(mi) /\ current = 0)
                => reply' = Reply("INSTANCE_STATUS", "NACK", mi, "")]_vars

\* C5: a tunnel task that is not done() belongs to the current Instance: it is
\* created only while its object is current and is done when the object is
\* cleared.
C5_TunnelNested ==
    \A i \in Slots : Running(inst[i].tunnel_task) => current = i

\* C6: the task launch_instance never ends with an exception, and a launch
\* that ended with status INIT_FAIL has sent INSTANCE_STATUS s=INIT_FAIL.
C6_LaunchNeverRaises ==
    \A i \in Slots :
        /\ inst[i].launch # "raised"
        /\ (inst[i].launch = "done" /\ inst[i].status = "INIT_FAIL")
               => HasSent(inst[i], Frame("INSTANCE_STATUS", "INIT_FAIL"))

\* C7: when `run -d` fails, launch_instance ends with status INIT_FAIL and no
\* tunnel task is created for the object, so no TH_SEARCH is sent for it.
C7_CreateFailedNoTunnel ==
    \A i \in Slots :
        inst[i].create = "failed"
            => /\ inst[i].launch \in {"done", "raised"} => inst[i].status = "INIT_FAIL"
               /\ inst[i].tunnel_task = "None"
               /\ Pushes(inst[i], "TH_SEARCH") = {}

\* C8: when self.current is cleared and the status of the cleared object is
\* INIT_FAIL, an INSTANCE_STATUS frame with s=INIT_FAIL has gone out to the
\* coordinator.
C8_InitFailReported ==
    [][\A i \in Slots :
         (current = i /\ current' # i /\ inst[i].status = "INIT_FAIL")
             => HasSent(inst[i], Frame("INSTANCE_STATUS", "INIT_FAIL"))]_vars

\* C9: the sandbox is removed only when the tunnel task of the Instance is
\* done(): destroy_instance cancels the task and waits for it first.
C9_TunnelDoneBeforeRemove ==
    [][(container /\ ~container' /\ current # 0)
           => ~Running(inst[current].tunnel_task)]_vars

\* C10: when run_sync has returned after the cancellation of main and an
\* Instance was current, the tunnel task of that Instance is done() and its
\* sandbox is removed.
C10_CancelPropagates ==
    (exit # "running" /\ current # 0)
        => /\ ~Running(inst[current].tunnel_task)
           /\ ~container

\* C11: after the cancellation of main by SIGTERM or by TERMINATE on the admin
\* socket, wherever run() was suspended, run_sync returns 0.
C11_TerminateExitsZero ==
    exit # "running" => exit = "0"

\* C12: within one Instance the sandbox address is known before TH_SEARCH is
\* sent, TH_SEARCH is sent before the TH_ACCEPT is taken and ACKed, the ACK
\* before the subprocess is spawned, and the subprocess before READY is set
\* and reported: READY is never set or reported without an address and a hub.
C12_ReadyOrder ==
    \A i \in Slots :
        LET r == inst[i]
            ready == PushesOf(r, Frame("INSTANCE_STATUS", "READY")) IN
        /\ Pushes(r, "TH_SEARCH") # {} => r.container_addr = "set"
        /\ r.tunnelhub # "None" => Pushes(r, "TH_SEARCH") # {}
        /\ Pushes(r, "ACK") # {} => r.tunnelhub # "None"
        /\ r.child # "none" => Pushes(r, "ACK") # {}
        /\ (r.status = "READY" \/ ready # {})
               => /\ r.child # "none"
                  /\ r.container_addr = "set"
                  /\ r.tunnelhub # "None"
        /\ \A a \in Pushes(r, "TH_SEARCH"), b \in Pushes(r, "ACK") : a < b
        /\ \A b \in Pushes(r, "ACK"), c \in ready : b < c

\* a reverse-tunnel controller has reported READY to the coordinator
C12_Witness ==
    \E i \in Slots :
        /\ inst[i].conntype = "sshtun"
        /\ inst[i].status = "READY"
        /\ HasSent(inst[i], Frame("INSTANCE_STATUS", "READY"))
        /\ inst[i].tunnel_task = "supervise"

\* the frames the tasks of the object r have handed to ws_send, in order
FramesOf(r) == [k \in 1..Len(r.frames) |-> r.frames[k].frame]

\* every frame the tasks of the object r have handed to ws_send was delivered
AllDelivered(r) == \A k \in 1..Len(r.frames) : r.frames[k].delivered

\* the frames of an sshtun launch of id in which nothing fails, up to READY;
\* mi is the mi of the TH_ACCEPT
HappyFrames(id, mi) ==
    << Frame("INSTANCE_STATUS", "INIT"),
       Frame("TH_SEARCH", [id |-> id, mo |-> "sshtun", key |-> "pub"]),
       Frame("ACK", mi),
       Frame("INSTANCE_STATUS", "READY") >>

C14_VpnRounds ==
    [][\A i \in Slots :
         LET r == inst[i] IN
         (/\ r.tunnel_task \in {"vpn_create", "vpn_newclient"}
          /\ ~r.cancel
          /\ r.wsopen
          /\ r.queue # <<>>
          /\ Head(r.queue).cmd =
                 (IF r.tunnel_task = "vpn_create" THEN "VPN_CREATE" ELSE "VPN_NEWCLIENT")
          /\ Head(r.queue).mi = (IF r.tunnel_task = "vpn_create" THEN "u1" ELSE "u2")
          /\ inst'[i].queue = Tail(r.queue))
             => inst'[i].tunnel_task =
                    (IF r.tunnel_task = "vpn_create" THEN "vpn_newclient"
                                                     ELSE "vpn_spawning")]_vars

\* C15: a controller hands INSTANCE_STATUS s=READY to ws_send at most once;
\* a reverse-tunnel Instance has status READY exactly when its controller has
\* done so, and a controller that supervises its subprocess, also after it
\* has spawned it again, has done so exactly once.
C15_ReadyOnce ==
    \A i \in Slots :
        LET r == inst[i]
            ready == PushesOf(r, Frame("INSTANCE_STATUS", "READY")) IN
        /\ Cardinality(ready) <= 1
        /\ r.conntype = "sshtun" => (r.status = "READY" <=> ready # {})
        /\ r.tunnel_task \in {"supervise", "vpn_supervise", "terminating"}
               => /\ r.status = "READY"
                  /\ Cardinality(ready) = 1
        /\ r.child \in {"running", "exited", "respawned"} => Cardinality(ready) = 1

\* the tunnel subprocess was spawned a second time and READY was reported once
C15_Witness ==
    \E i \in Slots :
        /\ inst[i].child = "respawned"
        /\ inst[i].tunnel_task = "supervise"
        /\ inst[i].status = "READY"
        /\ Cardinality(PushesOf(inst[i], Frame("INSTANCE_STATUS", "READY"))) = 1

\* C16: when find_tunnelhub takes a TH_ACCEPT off the queue of its Instance it
\* records the hub of that frame and hands to ws_send one ACK with the mi of
\* that frame; an Instance never sends a second ACK, whatever further
\* TH_ACCEPT frames arrive for it.
C16_AcceptAckedOnce ==
    /\ [](\A i \in Slots : Cardinality(Pushes(inst[i], "ACK")) <= 1)
    /\ [][\A i \in Slots :
            LET r == inst[i] IN
            (/\ r.tunnel_task = "wait_accept"
             /\ r.queue # <<>>
             /\ Head(r.queue).cmd = "TH_ACCEPT"
             /\ inst'[i].alive
             /\ inst'[i].queue = Tail(r.queue))
                => /\ inst'[i].tunnelhub = Head(r.queue).thid
                   /\ Len(inst'[i].frames) > Len(r.frames)
                   /\ FramesOf(inst'[i])[Len(r.frames) + 1] =
                          Frame("ACK", Head(r.queue).mi)
                   /\ Pushes(r, "ACK") = {}]_vars

\* the hub of a TH_ACCEPT with mi m2 is recorded and ACKed, and a further
\* TH_ACCEPT for the same Instance waits on the queue
C16_Witness ==
    \E i \in Slots :
        /\ inst[i].tunnelhub = "h1"
        /\ inst[i].tunnel_task = "supervise"
        /\ PushesOf(inst[i], Frame("ACK", "m2")) # {}
        /\ inst[i].queue # <<>>
        /\ Head(inst[i].queue).cmd = "TH_ACCEPT"

\* C17: every frame the daemon sends has v = 0 and a cmd among
\* INSTANCE_STATUS, TH_SEARCH, ACK, NACK, SSHTUN_DELETE, VPN_CREATE,
\* VPN_NEWCLIENT, VPN_DELETE; and the answer of handle_wsrecv to
\* INSTANCE_LAUNCH, INSTANCE_DESTROY, INSTANCE_STATUS, TH_PING and to a refused
\* TH_ACCEPT, VPN_CREATE or VPN_NEWCLIENT is ACK or NACK with the mi of the
\* request.
C17_WireFormat ==
    /\ [](/\ reply.v = 0
          /\ reply.cmd \in {"none", "ACK", "NACK"}
          /\ \A i \in Slots : \A k \in 1..Len(inst[i].frames) :
               /\ inst[i].frames[k].frame.v = 0
               /\ inst[i].frames[k].frame.cmd \in
                      {"INSTANCE_STATUS", "TH_SEARCH", "ACK", "NACK",
                       "SSHTUN_DELETE", "VPN_CREATE", "VPN_NEWCLIENT",
                       "VPN_DELETE"})
    /\ [][/\ \A id \in LaunchIds, ct \in Conntypes, mi \in Mis :
               instance_launch(id, ct, mi)
                   => reply'.cmd \in {"ACK", "NACK"} /\ reply'.mi = mi
          /\ \A mi \in Mis, rmok \in BOOLEAN :
               instance_destroy(mi, rmok)
                   => reply'.cmd \in {"ACK", "NACK"} /\ reply'.mi = mi
          /\ \A mi \in Mis :
               instance_status(mi)
                   => reply'.cmd \in {"ACK", "NACK"} /\ reply'.mi = mi
          /\ \A id \in PingIds, thid \in Thids, mi \in Mis :
               th_ping(id, thid, mi)
                   => reply'.cmd \in {"ACK", "NACK"} /\ reply'.mi = mi
          /\ \A cmd \in {"TH_ACCEPT", "VPN_CREATE", "VPN_NEWCLIENT"},
                id \in Ids, thid \in Thids \cup {""}, mi \in Mis \cup VpnMis :
               (Routed(cmd, id, thid, mi) /\ inst' = inst)
                   => reply'.cmd = "NACK" /\ reply'.mi = mi]_vars

\* a TH_PING with mi m2 was answered ACK after the Instance had sent frames
C17_Witness ==
    /\ reply = Reply("TH_PING", "ACK", "m2", "")
    /\ current # 0
    /\ Len(inst[current].frames) >= 3

\* C18: a TH_PING is answered ACK exactly when an Instance is current, the id
\* of the ping is the identifier of that Instance and its thid is the hub the
\* Instance has recorded; otherwise it is answered NACK.
C18_PingMatchesInstance ==
    [][\A id \in PingIds, thid \in Thids, mi \in Mis :
         th_ping(id, thid, mi)
             => /\ reply'.cmd \in {"ACK", "NACK"}
                /\ reply'.cmd = "ACK"
                       <=> /\ current # 0
                           /\ inst[current].instance_id = id
                           /\ inst[current].tunnelhub = thid]_vars

\* C19: a TH_ACCEPT, VPN_CREATE or VPN_NEWCLIENT frame is put on the queue of
\* the current Instance exactly when an Instance is current and the id of the
\* frame is its identifier; otherwise no queue changes and the frame is
\* answered NACK; so every item on the queue of an Instance carries the
\* identifier of that Instance.
C19_RoutedToOwner ==
    /\ [](\A i \in Slots : \A k \in 1..Len(inst[i].queue) :
             inst[i].queue[k].id = inst[i].instance_id)
    /\ [][\A cmd \in {"TH_ACCEPT", "VPN_CREATE", "VPN_NEWCLIENT"},
             id \in Ids, thid \in Thids \cup {""}, mi \in Mis \cup VpnMis :
            Routed(cmd, id, thid, mi)
                => IF current # 0 /\ inst[current].instance_id = id
                   THEN /\ inst'[current].queue =
                               Append(inst[current].queue,
                                      [cmd |-> cmd, id |-> id, mi |-> mi,
                                       thid |-> thid])
                        /\ \A j \in Slots \ {current} :
                               inst'[j].queue = inst[j].queue
                   ELSE /\ \A j \in Slots : inst'[j].queue = inst[j].queue
                        /\ reply' = Reply(cmd, "NACK", mi, "")]_vars

\* a TH_ACCEPT for another instance identifier was refused while an Instance
\* with a frame on its queue was current
C19_Witness ==
    /\ reply = Reply("TH_ACCEPT", "NACK", "m1", "")
    /\ current # 0
    /\ inst[current].instance_id = "i1"
    /\ inst[current].queue # <<>>

\* C20: an INSTANCE_LAUNCH with ct = sshtun while no ssh_key is configured is
\* answered NACK with the mi of the request; self.current, the objects, the
\* table of queues and the container are unchanged and the connection stays
\* open.
C20_NoKeyRefused ==
    [][\A id \in LaunchIds, mi \in Mis :
         (ssh_key = "None" /\ instance_launch(id, "sshtun", mi))
             => /\ reply' = Reply("INSTANCE_LAUNCH", "NACK", mi, "")
                /\ UNCHANGED <<current, inst, ws_recvmap, container, mainPc,
                               lost_connection, elapsed>>]_vars

\* a launch with ct = sshtun was refused for the missing key while no
\* Instance was current
C20_Witness ==
    /\ reply = Reply("INSTANCE_LAUNCH", "NACK", "m1", "")
    /\ ssh_key = "None"
    /\ current = 0
    /\ ws_recvmap = {}
    /\ mainPc = "open"

\* C21: an INSTANCE_LAUNCH with ct = sshtun handled while no Instance is
\* current and the configured ssh_key names a file that does not exist is
\* answered NACK with the mi of the request, and no WorkspaceInstance object
\* is created.
C21_MissingKeyRefused ==
    [][\A id \in LaunchIds, mi \in Mis :
         (/\ current = 0
          /\ warns_missing_key("sshtun")
          /\ instance_launch(id, "sshtun", mi))
             => /\ reply' = Reply("INSTANCE_LAUNCH", "NACK", mi, "")
                /\ UNCHANGED <<current, inst, ws_recvmap>>]_vars

\* C22: a frame that does not parse, has v # 0 or no cmd, or an unknown cmd
\* closes the websocket and ends the connection with ValueError, and leaves
\* self.current and, for the current Instance, its status, its hub, its
\* tunnel task (also not cancelled) and its queue as they were.
C22_InvalidKeepsInstance ==
    [][recv_invalid
           => /\ mainPc' # "open"
              /\ \A i \in Slots : ~inst'[i].wsopen
              /\ current' = current
              /\ current # 0
                     => /\ inst'[current].alive
                        /\ inst'[current].status = inst[current].status
                        /\ inst'[current].tunnelhub = inst[current].tunnelhub
                        /\ inst'[current].tunnel_task = inst[current].tunnel_task
                        /\ inst'[current].cancel = inst[current].cancel
                        /\ inst'[current].child = inst[current].child
                        /\ inst'[current].queue = inst[current].queue]_vars

\* an invalid frame ended the connection while a READY Instance with a hub, a
\* supervising controller and a frame on its queue was current
C22_Witness ==
    /\ reply.to = "INVALID"
    /\ mainPc = "sleep"
    /\ current # 0
    /\ inst[current].status = "READY"
    /\ inst[current].tunnelhub = "h1"
    /\ inst[current].tunnel_task = "supervise"
    /\ inst[current].queue # <<>>

\* C23: when the connection ends, run() goes on to the next connection
\* attempt exactly when the end is neither a cancellation nor an invalid
\* frame: after a receive timeout or network error it sleeps and connects
\* again, after a CLOSED or ERROR frame it connects again, after a failed
\* attempt within the window it sleeps and tries again; after an invalid
\* frame and after a cancellation there is no further attempt.
C23_ReconnectIff ==
    [][/\ conn_lost => mainPc' = "sleep"
       /\ recv_closed => mainPc' = "connect"
       /\ (ws_connect /\ mainPc' # "open" /\ ~window_exceeded) => mainPc' = "sleep"
       /\ sleep_done => mainPc' = "connect"
       /\ recv_invalid => mainPc' \notin {"sleep", "connect", "open"}
       /\ (handle_sigterm \/ dsocket_terminate) => mainPc' = "done"]_vars

\* C24: run() notes the first loss (elapsed time 0) and sleeps before the next
\* attempt; while the loss is noted no connection is open and the noted time
\* is kept; a connection that opens clears it; and run() gives up only at a
\* failed attempt with more than the window elapsed since the noted loss, so
\* only after failures that no open connection separates.
C24_GiveUpWindow ==
    /\ [](/\ mainResult = "abandoned" => (lost_connection /\ elapsed > GiveUpAfter)
          /\ lost_connection => mainPc \in {"sleep", "connect", "done"}
          /\ ~lost_connection => elapsed = 0)
    /\ [][/\ (mainPc # "open" /\ mainPc' = "open")
                => (~lost_connection' /\ elapsed' = 0)
          /\ (~lost_connection /\ lost_connection')
                => (elapsed' = 0 /\ mainPc' = "sleep")
          /\ (lost_connection /\ lost_connection') => elapsed' >= elapsed
          /\ (mainResult # "abandoned" /\ mainResult' = "abandoned")
                => (mainPc = "connect" /\ lost_connection /\ elapsed > GiveUpAfter)
          /\ (ws_connect /\ mainPc' # "open" /\ elapsed <= GiveUpAfter)
                => mainPc' = "sleep"]_vars

\* run() has given up after a connection on which an Instance was launched
\* was lost and every attempt since failed
C24_Witness ==
    /\ mainResult = "abandoned"
    /\ elapsed = GiveUpAfter + 1
    /\ current # 0
    /\ inst[current].status = "READY"

\* C25: when run() has given up the reconnection, the failure leaves the task
\* main as an exception and run_sync does not return 0.
C25_AbandonExitsWithError ==
    mainResult = "abandoned"
        => /\ mainPc = "done"
           /\ exit # "0"

\* C26: a CLOSED or ERROR frame while main is not cancelled makes run() leave
\* the connection without an exception and go straight to the next
\* connection attempt; neither that step nor the attempt changes
\* self.current or, for the current Instance, its status, its hub, its tunnel
\* task and its subprocess.
C26_ClosedKeepsInstance ==
    [][/\ recv_closed
            => /\ mainPc' = "connect"
               /\ mainResult' = "running"
               /\ ~lost_connection'
               /\ current' = current
               /\ current # 0
                      => /\ inst'[current].alive
                         /\ inst'[current].status = inst[current].status
                         /\ inst'[current].tunnelhub = inst[current].tunnelhub
                         /\ inst'[current].tunnel_task = inst[current].tunnel_task
                         /\ inst'[current].cancel = inst[current].cancel
                         /\ inst'[current].child = inst[current].child
                         /\ inst'[current].queue = inst[current].queue
       /\ ws_connect => (current' = current /\ inst' = inst)]_vars

\* the coordinator closed the connection while a READY Instance with a hub
\* and a supervising controller was current, and run() is about to connect
C26_Witness ==
    /\ reply.to = "CLOSED"
    /\ mainPc = "connect"
    /\ current # 0
    /\ inst[current].status = "READY"
    /\ inst[current].tunnelhub = "h1"
    /\ inst[current].tunnel_task = "supervise"
    /\ inst[current].child = "running"

\* C27: while a controller supervises its subprocess and is not cancelled,
\* every exit of the subprocess, the first one and any later one, is
\* followed by a new spawn (unless the controller is cancelled or the event
\* loop has stopped first); the spawn keeps the controller supervising and
\* the status READY.
C27_Respawns ==
    /\ \A i \in Slots :
          (/\ inst[i].tunnel_task \in {"supervise", "vpn_supervise"}
           /\ inst[i].child = "exited"
           /\ ~inst[i].cancel)
              ~> (\/ inst[i].child = "respawned"
                  \/ inst[i].cancel
                  \/ mainPc = "done")
    /\ [][\A i \in Slots :
            (inst[i].child = "exited" /\ inst'[i].child = "respawned")
                => /\ inst[i].tunnel_task \in {"supervise", "vpn_supervise"}
                   /\ inst'[i].tunnel_task = inst[i].tunnel_task
                   /\ ~inst[i].cancel
                   /\ inst'[i].status = "READY"]_vars

\* the ssh subprocess of a supervising controller that is not cancelled has
\* exited and was spawned again, with the connection open
C27_Witness ==
    \E i \in Slots :
        /\ inst[i].conntype = "sshtun"
        /\ inst[i].tunnel_task = "supervise"
        /\ inst[i].child = "respawned"
        /\ ~inst[i].cancel
        /\ inst[i].wsopen
        /\ mainPc = "open"

\* C28: when the task maintain_tunnel ends after its cancellation, wherever it
\* was suspended, no ssh subprocess of it is running and it has handed
\* SSHTUN_DELETE to ws_send.
C28_SshtunCancelDeletes ==
    [][\A i \in Slots :
         (/\ inst[i].conntype = "sshtun"
          /\ inst[i].cancel
          /\ inst[i].tunnel_task \in {"wait_addr", "wait_accept", "spawning",
                                      "supervise", "terminating"}
          /\ inst'[i].alive
          /\ ~Running(inst'[i].tunnel_task))
             => /\ inst'[i].child \notin {"running", "respawned"}
                /\ Pushes(inst'[i], "SSHTUN_DELETE") # {}]_vars

\* C29: when the task start_vpn ends after its cancellation, wherever it was
\* suspended, no VPN client of it is running, it has handed VPN_DELETE with
\* the instance id to ws_send, and the status of the Instance is as before.
C29_VpnCancelDeletes ==
    [][\A i \in Slots :
         (/\ inst[i].conntype = "vpn"
          /\ inst[i].cancel
          /\ inst[i].tunnel_task \in {"wait_addr", "wait_accept", "vpn_create",
                                      "vpn_newclient", "vpn_spawning",
                                      "vpn_supervise"}
          /\ inst'[i].alive
          /\ ~Running(inst'[i].tunnel_task))
             => /\ inst'[i].child \notin {"running", "respawned"}
                /\ PushesOf(inst'[i], Frame("VPN_DELETE", inst[i].instance_id)) # {}
                /\ inst'[i].status = inst[i].status]_vars

\* C30: an Instance for which the sandbox published no address or no
\* forwarded ssh port before the deadline never has status READY, and when
\* its launch_instance has ended its status is INIT_FAIL.
C30_TimeoutInitFail ==
    \A i \in Slots :
        (inst[i].container_addr = "none" \/ inst[i].port = "none")
            => /\ inst[i].status # "READY"
               /\ inst[i].launch \in {"done", "raised"} => inst[i].status = "INIT_FAIL"

\* C37: a frame a task of an Instance hands to ws_send while a connection is
\* open goes out on that connection, also when the connection that was open
\* at launch time has been closed since.
C37_FramesOnOpenConnection ==
    [][\A i \in Slots :
         (/\ mainPc = "open"
          /\ inst[i].alive
          /\ inst'[i].alive
          /\ Len(inst'[i].frames) > Len(inst[i].frames))
             => \A k \in (Len(inst[i].frames) + 1)..Len(inst'[i].frames) :
                    inst'[i].frames[k].delivered]_vars

\* C38: a step of handle_wsrecv that answers INSTANCE_DESTROY with ACK clears
\* self.current, or waits for the cancelled tunnel task and clears it then,
\* whatever the removal of the sandbox returns; so handle_wsrecv never takes
\* the next frame with the Instance of an ACKed destroy still current.
C38_AckedDestroyClears ==
    [][/\ \A mi \in Mis, rmok \in BOOLEAN :
            (instance_destroy(mi, rmok) /\ reply'.cmd = "ACK")
                => \/ current' = 0
                   \/ mainPc' = "destroy_wait" /\ inst'[current'].cancel
       /\ destroy_wait
            => /\ current' = 0
               /\ ~Running(inst[current].tunnel_task)]_vars

\* C40: ws_recvmap has a queue for an instance identifier exactly while the
\* Instance launched with that identifier is current: it is empty when no
\* Instance is current and never has more than one entry.
C40_RecvmapFollowsCurrent ==
    /\ Cardinality(ws_recvmap) <= 1
    /\ ws_recvmap = (IF current = 0 THEN {} ELSE {inst[current].arg_id})

\* C32: a STATUS request handle_dsocket receives is answered READY when
\* self.current is None and ACTIVE:<container_name> otherwise, whatever the
\* status of the current Instance and whatever its tasks are doing, and
\* handling it changes nothing of the daemon but the answer on the connection.
C32_StatusAnswered ==
    [][dsocket_request("STATUS\n")
         => /\ dreply' = (IF current = 0 THEN "READY\n" ELSE "ACTIVE:rrc\n")
            /\ UNCHANGED <<config, mainPc, mainResult, lost_connection, elapsed,
                           current, ws_recvmap, inst, container, reply, dsocket,
                           sockfile, exit>>]_vars

\* ACTIVE:rrc is the answer on the connection while the current Instance is
\* INIT_FAIL
C32_Witness ==
    /\ dreply = "ACTIVE:rrc\n"
    /\ current # 0
    /\ inst[current].status = "INIT_FAIL"

\* C33: the admin socket file exists as long as the task main runs, whatever
\* the clients of the socket send, and it is gone when run_sync has ended.
C33_SocketFileWhileRunning ==
    /\ mainPc # "done" => sockfile
    /\ exit # "running" => ~sockfile

\* the wait of destroy_instance for the cancelled tunnel task ends
DestroyWaitEnds == (mainPc = "destroy_wait") ~> (mainPc # "destroy_wait")

\* C39: the handling of an INSTANCE_DESTROY for a current Instance ends:
\* whatever the tunnel task was doing, the wait for it is eventually over,
\* and when the handling is over self.current is None and run() reads the
\* next frame of the connection.
C39_DestroyTerminates ==
    /\ DestroyWaitEnds
    /\ [][/\ \A mi \in Mis, rmok \in BOOLEAN :
                (instance_destroy(mi, rmok) /\ current # 0)
                    => \/ mainPc' = "destroy_wait"
                       \/ mainPc' = "open" /\ current' = 0
          /\ destroy_wait => (mainPc' = "open" /\ current' = 0)]_vars

\* C31: destroy_instance() called on an object on which a call of
\* destroy_instance() has returned (the container is removed, the tunnel task
\* is over or was never created) returns without an exception and leaves the
\* object and the host as the earlier call left them.
C31_DestroyIdempotent ==
    [][\A rmok \in BOOLEAN :
         (destroy_call(rmok) /\ call.returned)
             => /\ call'.result = "returned"
                /\ inst' = inst
                /\ container' = container]_vars

\* no deployment of the local configuration has an id that starts with p
NoMatch(p) == \A i \in 1..Len(cli.file) : ~startswith(cli.file[i].id, p)

\* C34: a start of the daemon with an identifier that matches no deployment
\* of the local configuration, by the command ad or by run_sync itself, ends
\* with exit code 1 and creates neither the task main nor the task dsocket.
C34_UnknownIdExitsOne ==
    [][\A p \in Prefixes :
         ((ad(p) \/ run_sync_call(p)) /\ NoMatch(p))
             => /\ cli'.result = "1"
                /\ mainPc' = "unborn"
                /\ dsocket' = "unborn"]_vars

\* C35: inspect_instance of a deployment finds the daemon exactly when the
\* daemon of that deployment is running with its admin socket.
C35_DaemonFound ==
    [][\A id \in WdIds :
         inspect_instance(id)
             => (cli'.result = "found"
                    <=> (dsocket = "listening" /\ sockfile /\ cli.wd = id))]_vars

\* C36: register_new without a valid token raises Error and leaves the
\* configuration as it was; with a valid token, an empty configuration and
\* the answer 200 it returns the id of the answer, and the configuration
\* read back from the file declares that one deployment; with at_most_one
\* and a deployment already declared it raises Error and the configuration
\* stays as it was.
C36_RegisterNew ==
    [][\A amo \in BOOLEAN, status \in Statuses, newid \in WdIds :
         register_new(amo, status, newid)
             => LET before == get_local_config(cli.file, cli.key)
                    after == get_local_config(cli'.file, cli'.key) IN
                /\ cli.key # "valid"
                       => cli'.result = "Error" /\ after = before
                /\ (cli.key = "valid" /\ status = "200"
                       /\ Len(before.wdeployments) = 0)
                       => /\ cli'.result = "returned"
                          /\ cli'.rid = newid
                          /\ Len(after.wdeployments) = 1
                          /\ after.wdeployments[1].id = newid
                /\ (amo /\ Len(before.wdeployments) > 0)
                       => cli'.result = "Error" /\ after = before]_vars

\* register_new has returned the id of the one deployment the file declares
C36_Witness ==
    /\ cli.cmd = "register_new"
    /\ cli.result = "returned"
    /\ cli.key = "valid"
    /\ Len(cli.file) = 1
    /\ cli.file[1].id = cli.rid

====
